---- MODULE Spec2Model ----
(***************************************************************************)
(* Model of the gitrpc smart-HTTP bridge (internal/gitrpc/http_service.go):*)
(* the packet-line encoder packetWrite, the ref advertisement InfoRefs and *)
(* the bidirectional ServicePack / serviceRPC exchange, together with the  *)
(* parts of their surroundings they act on: the gRPC stream of the call,   *)
(* the git subprocess started through exec, its pipes and the log.         *)
(*                                                                         *)
(* Text is modelled in two ways.  Short texts (service names, messages,    *)
(* packet-line headers) are TLA+ strings.  The argument of packetWrite is  *)
(* a record [lit, fill]: the text lit followed by fill copies of one       *)
(* filler byte, so that inputs of 65532 bytes and more fit in a state.     *)
(* Byte streams through the subprocess pipes are tuples of bytes.          *)
(***************************************************************************)
EXTENDS Integers, Sequences, FiniteSets, TLC

VARIABLES
    call,        \* which entry point this behaviour exercises
    pc,          \* position of the handler inside its body
    req,         \* InfoRefsRequest, or the first ServicePackRequest received
    environ,     \* the variables the bridge adds, in append order
    cmd,         \* the git command: its context and its RunOpts
    streamCtx,   \* the caller's stream context: "active" or "cancelled"
    elapsed,     \* seconds since InfoRefs created its timeout context
    proc,        \* the git subprocess
    runErr,      \* what cmd.Run returned
    procStderr,  \* what the subprocess wrote on standard error
    stderrBuf,   \* the bytes.Buffer given as RunOpts.Stderr (serviceRPC only)
    cmdBuf,      \* the bytes.Buffer given as RunOpts.Stdout (InfoRefs only)
    inbox,       \* caller messages in flight, not yet returned by stream.Recv
    clientLog,   \* every message the caller has put on the stream, in order
    clientClosed,\* the caller half-closed the stream (Recv ends with io.EOF)
    feeder,      \* the task copying the stdin reader into the subprocess
    drainer,     \* the task copying subprocess stdout into the stdout writer
    fed,         \* writes made to subprocess stdin: <<message number, bytes>>
    procOut,     \* the writes the subprocess made on standard output
    outPipe,     \* stdout bytes written and not yet read by the drainer
    sent,        \* chunks delivered by stream.Send, in order
    logs,        \* log entries recorded
    ret,         \* what the handler returned to gRPC
    pwIn,        \* argument of a direct packetWrite call
    pwOut        \* its result

vars == <<call, pc, req, environ, cmd, streamCtx, elapsed, proc,
          runErr, procStderr, stderrBuf, cmdBuf, inbox, clientLog, clientClosed,
          feeder, drainer, fed, procOut, outPipe, sent, logs, ret, pwIn, pwOut>>

(***************************************************************************)
(* Bounds of the model.                                                    *)
(***************************************************************************)
MaxShortLen == 3     \* packetWrite: every fill count 0..MaxShortLen
MaxClientMsgs == 2   \* ServicePack: caller messages after the metadata message
MaxProcWrites == 2   \* writes the subprocess makes on standard output
ClockStep == 30      \* seconds one tick of the InfoRefs clock advances

(***************************************************************************)
(* Program constants.                                                      *)
(***************************************************************************)
receivePack == "receive-pack"
uploadPack == "upload-pack"
InfoRefsTimeout == 60
EnvRepoUID == "EnvRepoUID"
EnvPusherID == "EnvPusherID"
SignalKilled == "signal: killed"


(***************************************************************************)
(* Text helpers.                                                           *)
(***************************************************************************)
Lit(s) == [lit |-> s, fill |-> 0]
StrLen(str) == Len(str.lit) + str.fill
StrConcat(s, str) == [lit |-> s \o str.lit, fill |-> str.fill]

RECURSIVE Repeat(_, _)
Repeat(s, count) == IF count <= 0 THEN "" ELSE s \o Repeat(s, count - 1)

HexDigits == <<"0", "1", "2", "3", "4", "5", "6", "7",
               "8", "9", "a", "b", "c", "d", "e", "f">>

\* strconv.FormatInt(n, 16) for n >= 0: lowercase, no leading zeros
RECURSIVE FormatInt16(_)
FormatInt16(n) ==
    IF n < 16 THEN HexDigits[n + 1]
    ELSE FormatInt16(n \div 16) \o HexDigits[(n % 16) + 1]

packetWriteNoHeaderLen(str) ==
    LET s == FormatInt16(StrLen(str))
    IN  StrConcat(IF Len(s) % 4 # 0
                  THEN Repeat("0", 4 - (Len(s) % 4)) \o s ELSE s, str)

packetWrite(str) ==
    LET s == FormatInt16(StrLen(str) + 4)
    IN  StrConcat(IF Len(s) % 4 # 0
                  THEN Repeat("0", 4 - (Len(s) % 4)) \o s ELSE s, str)

\* []byte(text) of a short text: the bytes themselves
FillByte == "a"
Bytes(str) == str.lit \o Repeat(FillByte, str.fill)

RECURSIVE Join(_)
Join(parts) == IF parts = <<>> THEN "" ELSE Head(parts) \o Join(Tail(parts))

RECURSIVE Flatten(_)
Flatten(chunks) ==
    IF chunks = <<>> THEN <<>> ELSE Head(chunks) \o Flatten(Tail(chunks))

IsPrefix(a, b) == Len(a) <= Len(b) /\ SubSeq(b, 1, Len(a)) = a

(***************************************************************************)
(* Errors.  An error is nil, a plain Go error or a gRPC status error; its  *)
(* message is kept as the sequence of the texts it was formatted from.     *)
(***************************************************************************)
NilErr == [kind |-> "nil", code |-> "OK", parts |-> <<>>]
PlainErr(text) == [kind |-> "plain", code |-> "", parts |-> <<text>>]
StatusErrorf(code, parts) == [kind |-> "status", code |-> code, parts |-> parts]

\* err.Error()
ErrorString(err) ==
    IF err.kind = "status"
    THEN "rpc error: code = " \o err.code \o " desc = " \o Join(err.parts)
    ELSE Join(err.parts)

\* the code the caller sees: status.Code(err) of what the handler returned
GrpcCode(err) ==
    CASE err.kind = "nil" -> "OK"
      [] err.kind = "status" -> err.code
      [] OTHER -> "Unknown"

Running == [returned |-> FALSE, err |-> NilErr]
Returned(err) == [returned |-> TRUE, err |-> err]

RecvCancelled == StatusErrorf("Canceled", <<"context canceled">>)
SendCancelled == StatusErrorf("Canceled", <<"send: context canceled">>)
LaunchErrors == {PlainErr("exec: git: executable file not found")}
StartCancelled == PlainErr("context canceled")
ExitStatusErr == PlainErr("exit status 128")
KilledErr == PlainErr(SignalKilled)
StderrText == "fatal: not a git repository"

(***************************************************************************)
(* safeGitProtocolHeader:                                                  *)
(*   ^[0-9a-zA-Z]+=[0-9a-zA-Z]+(:[0-9a-zA-Z]+=[0-9a-zA-Z]+)*$             *)
(* run as its automaton over a protocol text given as a tuple of           *)
(* characters.  q = 0: a key must start; 1: inside a key; 2: a value must  *)
(* start; 3: inside a value (the only accepting position).                 *)
(***************************************************************************)
Alnum == {"v", "a", "1", "2", "Z"}

RECURSIVE HeaderRun(_, _, _)
HeaderRun(s, i, q) ==
    IF i > Len(s) THEN q = 3
    ELSE CASE q = 0 -> s[i] \in Alnum /\ HeaderRun(s, i + 1, 1)
           [] q = 1 -> \/ s[i] \in Alnum /\ HeaderRun(s, i + 1, 1)
                       \/ s[i] = "=" /\ HeaderRun(s, i + 1, 2)
           [] q = 2 -> s[i] \in Alnum /\ HeaderRun(s, i + 1, 3)
           [] OTHER -> \/ s[i] \in Alnum /\ HeaderRun(s, i + 1, 3)
                       \/ s[i] = ":" /\ HeaderRun(s, i + 1, 0)

safeGitProtocolHeaderMatchString(s) == HeaderRun(s, 1, 0)

(***************************************************************************)
(* Requests.                                                               *)
(***************************************************************************)
Services == {uploadPack, receivePack}
RepoUids == {"", "r1"}
PrincipalIds == {"", "p1"}
ProtocolStrings ==
    { <<>>,
      <<"v", "=", "2">>,
      <<"v", "=", "2", ":", "a", "=", "1">>,
      <<"v", "=">>,
      <<"v", "=", "2", ";", "Z", "=", "1">> }

NoData == [set |-> FALSE, bytes |-> <<>>]
SomeData(b) == [set |-> TRUE, bytes |-> b]
GetData(m) == m.Data.bytes

InfoRefsRequests ==
    [Service : Services, RepoUid : RepoUids, GitProtocol : ProtocolStrings,
     PrincipalId : {""}, Data : {NoData}]

FirstMessages ==
    [Service : Services, RepoUid : RepoUids, GitProtocol : ProtocolStrings,
     PrincipalId : PrincipalIds,
     Data : {NoData, SomeData(<<>>), SomeData(<<9>>)}]

\* a later caller message: payload only
DataMessage(d) ==
    [Service |-> "", RepoUid |-> "", GitProtocol |-> <<>>, PrincipalId |-> "",
     Data |-> d]

NoReq == DataMessage(NoData)

\* the payloads the caller may put in its n-th message
Payloads(n) == {NoData, SomeData(<<n>>)}

(***************************************************************************)
(* Environment of the git command.                                         *)
(***************************************************************************)
\* one "NAME=value" entry; a value is a tuple of text fragments (a protocol
\* text is the tuple of its characters, any other value one fragment)
EnvVar(name, value) == [name |-> name, value |-> value]
Text(s) == <<s>>

\* os.Environ()
HostEnviron == <<EnvVar("PATH", Text("/usr/bin"))>>

\* InfoRefs: what is appended to os.Environ()
InfoRefsEnviron(r) ==
    IF r.GitProtocol # <<>>
    THEN <<EnvVar("GIT_PROTOCOL", r.GitProtocol)>>
    ELSE <<>>

serviceRPCEnvironAlwaysPush(r) ==
    LET pushVars == <<EnvVar(EnvRepoUID, Text(r.RepoUid)),
                      EnvVar(EnvPusherID, Text(r.PrincipalId))>>
        marker == Append(pushVars, EnvVar("SSH_ORIGINAL_COMMAND", Text(r.Service)))
    IN  IF r.GitProtocol # <<>>
           /\ safeGitProtocolHeaderMatchString(r.GitProtocol)
        THEN Append(marker, EnvVar("GIT_PROTOCOL", r.GitProtocol))
        ELSE marker

serviceRPCEnvironNoMarker(r) ==
    LET pushVars ==
            IF r.Service = receivePack /\ r.PrincipalId # ""
            THEN <<EnvVar(EnvRepoUID, Text(r.RepoUid)),
                   EnvVar(EnvPusherID, Text(r.PrincipalId))>>
            ELSE <<>>
    IN  IF r.GitProtocol # <<>>
           /\ safeGitProtocolHeaderMatchString(r.GitProtocol)
        THEN Append(pushVars, EnvVar("GIT_PROTOCOL", r.GitProtocol))
        ELSE pushVars

\* serviceRPC: environ as built before the command is created
serviceRPCEnviron(r) ==
    LET pushVars ==
            IF r.Service = receivePack /\ r.PrincipalId # ""
            THEN <<EnvVar(EnvRepoUID, Text(r.RepoUid)),
                   EnvVar(EnvPusherID, Text(r.PrincipalId))>>
            ELSE <<>>
        marker == Append(pushVars, EnvVar("SSH_ORIGINAL_COMMAND", Text(r.Service)))
    IN  IF r.GitProtocol # <<>>
           /\ safeGitProtocolHeaderMatchString(r.GitProtocol)
        THEN Append(marker, EnvVar("GIT_PROTOCOL", r.GitProtocol))
        ELSE marker

NoCmd == [ctx |-> "none", Env |-> <<>>, Stdout |-> "none", Stdin |-> FALSE,
          Stderr |-> FALSE]

(***************************************************************************)
(* Initial states: one call of one entry point, with its input.            *)
(***************************************************************************)
Pow16(j) == 16 ^ j

\* lengths of the packetWrite inputs tried: the short ones, and the lengths
\* around which len(str)+4 gains a hexadecimal digit
FillCounts ==
    (0 .. MaxShortLen)
        \cup {Pow16(j) - 4 + d : j \in 1 .. 5, d \in {0 - 1, 0, 1}}

PacketWriteInputs == [lit : {"", "# "}, fill : FillCounts]

Idle ==
    /\ environ = <<>>
    /\ cmd = NoCmd
    /\ streamCtx = "active"
    /\ elapsed = 0
    /\ proc = "none"
    /\ runErr = NilErr
    /\ procStderr = ""
    /\ stderrBuf = ""
    /\ cmdBuf = ""
    /\ clientClosed = FALSE
    /\ feeder = "idle"
    /\ drainer = "idle"
    /\ fed = <<>>
    /\ procOut = <<>>
    /\ outPipe = <<>>
    /\ sent = <<>>
    /\ logs = <<>>
    /\ ret = Running

InitPacketWrite ==
    /\ call = "packetWrite"
    /\ pc = "call"
    /\ pwIn \in PacketWriteInputs
    /\ pwOut = Lit("")
    /\ req = NoReq
    /\ inbox = <<>>
    /\ clientLog = <<>>
    /\ Idle

InitInfoRefs ==
    /\ call = "InfoRefs"
    /\ pc = "start"
    /\ req \in InfoRefsRequests
    /\ inbox = <<>>
    /\ clientLog = <<>>
    /\ pwIn = Lit("")
    /\ pwOut = Lit("")
    /\ Idle

InitServicePack ==
    /\ call = "ServicePack"
    /\ pc = "recv"
    /\ req = NoReq
    /\ \E m \in FirstMessages : inbox = <<m>> /\ clientLog = <<m>>
    /\ pwIn = Lit("")
    /\ pwOut = Lit("")
    /\ Idle

Init == InitPacketWrite \/ InitInfoRefs \/ InitServicePack

(***************************************************************************)
(* packetWrite called directly.                                            *)
(***************************************************************************)
CallPacketWrite ==
    /\ call = "packetWrite"
    /\ pc = "call"
    /\ pwOut' = packetWrite(pwIn)
    /\ pc' = "done"
    /\ UNCHANGED <<call, req, environ, cmd, streamCtx, elapsed, proc, runErr,
                   procStderr, stderrBuf, cmdBuf, inbox, clientLog,
                   clientClosed, feeder, drainer, fed, procOut, outPipe, sent,
                   logs, ret, pwIn>>

(***************************************************************************)
(* The surroundings: the caller, the clock and the git subprocess.         *)
(***************************************************************************)
\* ctx.Done() of the context the command was created with
CtxDone(c) ==
    \/ c = "stream" /\ streamCtx = "cancelled"
    \/ c = "timeout" /\ elapsed >= InfoRefsTimeout

Terminated == proc \in {"exited0", "exitedN", "killed"}

\* the caller cancels the call (or its deadline passes, or it disconnects)
CallerCancel ==
    /\ call \in {"InfoRefs", "ServicePack"}
    /\ ~ret.returned
    /\ streamCtx = "active"
    /\ streamCtx' = "cancelled"
    /\ UNCHANGED <<call, pc, req, environ, cmd, elapsed, proc, runErr,
                   procStderr, stderrBuf, cmdBuf, inbox, clientLog,
                   clientClosed, feeder, drainer, fed, procOut, outPipe, sent,
                   logs, ret, pwIn, pwOut>>

\* time passes while the command of InfoRefs runs
Tick ==
    /\ cmd.ctx = "timeout"
    /\ pc = "run"
    /\ elapsed < InfoRefsTimeout
    /\ elapsed' = elapsed + ClockStep
    /\ UNCHANGED <<call, pc, req, environ, cmd, streamCtx, proc, runErr,
                   procStderr, stderrBuf, cmdBuf, inbox, clientLog,
                   clientClosed, feeder, drainer, fed, procOut, outPipe, sent,
                   logs, ret, pwIn, pwOut>>

\* the k-th write of the subprocess on standard output
StdoutChunk(k) ==
    IF cmd.Stdout = "cmdBuf" THEN "ref" \o HexDigits[k + 1] \o "\n" ELSE <<k>>

ProcWrite ==
    /\ proc = "running"
    /\ Len(procOut) < MaxProcWrites
    /\ LET chunk == StdoutChunk(Len(procOut) + 1)
       IN  /\ procOut' = Append(procOut, chunk)
           /\ IF cmd.Stdout = "cmdBuf"
              THEN cmdBuf' = cmdBuf \o chunk /\ outPipe' = outPipe
              ELSE outPipe' = outPipe \o chunk /\ cmdBuf' = cmdBuf
    /\ UNCHANGED <<call, pc, req, environ, cmd, streamCtx, elapsed, proc,
                   runErr, procStderr, stderrBuf, inbox, clientLog,
                   clientClosed, feeder, drainer, fed, sent, logs, ret, pwIn,
                   pwOut>>

\* the subprocess exits by itself: status 0, or non-zero after a message on
\* standard error, which reaches stderrBuf only when RunOpts.Stderr is set
ProcExit ==
    /\ proc = "running"
    /\ \/ proc' = "exited0" /\ procStderr' = "" /\ stderrBuf' = ""
       \/ /\ proc' = "exitedN"
          /\ procStderr' = StderrText
          /\ stderrBuf' = IF cmd.Stderr THEN StderrText ELSE ""
    /\ UNCHANGED <<call, pc, req, environ, cmd, streamCtx, elapsed, runErr,
                   cmdBuf, inbox, clientLog, clientClosed, feeder, drainer,
                   fed, procOut, outPipe, sent, logs, ret, pwIn, pwOut>>

\* exec kills the subprocess once the command's context is done
Kill ==
    /\ proc = "running"
    /\ CtxDone(cmd.ctx)
    /\ proc' = "killed"
    /\ UNCHANGED <<call, pc, req, environ, cmd, streamCtx, elapsed, runErr,
                   procStderr, stderrBuf, cmdBuf, inbox, clientLog,
                   clientClosed, feeder, drainer, fed, procOut, outPipe, sent,
                   logs, ret, pwIn, pwOut>>

\* what cmd.Run returns once the subprocess and the copying tasks are over;
\* copyErrs are the errors the copying tasks ended with
RunResults(copyErrs) ==
    CASE proc = "launchFailed" -> {runErr}
      [] proc = "exitedN" -> {ExitStatusErr}
      [] proc = "killed" -> {KilledErr}
      [] OTHER -> IF copyErrs = {} THEN {NilErr} ELSE copyErrs

(***************************************************************************)
(* The stream adapters (NewWriter, NewReader).  A Write hands its bytes to *)
(* the sender callback in one call; a Read returns what one call of the    *)
(* receiver callback returned, bytes and error alike.                      *)
(***************************************************************************)
WriterWrite(p) == <<p>>
ReaderRead(chunk) == chunk

(***************************************************************************)
(* InfoRefs.                                                               *)
(***************************************************************************)
InfoRefsContextFromStream == "stream"

\* ctx, cancel := context.WithTimeout(context.Background(), 60*time.Second)
InfoRefsContext == "timeout"

\* the sender callback of InfoRefs: stream.Send(&rpc.InfoRefsResponse{Data: p})
InfoRefsSend(p) == p

\* from the environment to the start of the command
InfoRefsStart ==
    /\ call = "InfoRefs"
    /\ pc = "start"
    /\ environ' = InfoRefsEnviron(req)
    /\ cmd' = [ctx |-> InfoRefsContext, Env |-> HostEnviron \o environ',
               Stdout |-> "cmdBuf", Stdin |-> FALSE, Stderr |-> FALSE]
    /\ elapsed' = 0
    /\ \/ proc' = "running" /\ runErr' = runErr
       \/ proc' = "launchFailed" /\ runErr' \in LaunchErrors
    /\ pc' = "run"
    /\ UNCHANGED <<call, req, streamCtx, procStderr, stderrBuf, cmdBuf, inbox,
                   clientLog, clientClosed, feeder, drainer, fed, procOut,
                   outPipe, sent, logs, ret, pwIn, pwOut>>

InfoRefsRunReturnsSalvage ==
    /\ call = "InfoRefs"
    /\ pc = "run"
    /\ proc \in {"launchFailed", "exited0", "exitedN", "killed"}
    /\ \E err \in RunResults({}) :
          /\ runErr' = err
          /\ pc' = "pktLine"
          /\ ret' = ret
    /\ UNCHANGED <<call, req, environ, cmd, streamCtx, elapsed, proc,
                   procStderr, stderrBuf, cmdBuf, inbox, clientLog,
                   clientClosed, feeder, drainer, fed, procOut, outPipe, sent,
                   logs, pwIn, pwOut>>

\* Run has returned: an error ends the call before anything is written
InfoRefsRunReturns ==
    /\ call = "InfoRefs"
    /\ pc = "run"
    /\ proc \in {"launchFailed", "exited0", "exitedN", "killed"}
    /\ \E err \in RunResults({}) :
          /\ runErr' = err
          /\ IF err # NilErr
             THEN /\ ret' = Returned(StatusErrorf("Internal",
                              <<"InfoRefsUploadPack: cmd: ", ErrorString(err)>>))
                  /\ pc' = "done"
             ELSE /\ ret' = ret
                  /\ pc' = "pktLine"
    /\ UNCHANGED <<call, req, environ, cmd, streamCtx, elapsed, proc,
                   procStderr, stderrBuf, cmdBuf, inbox, clientLog,
                   clientClosed, feeder, drainer, fed, procOut, outPipe, sent,
                   logs, pwIn, pwOut>>

\* one w.Write(p) of InfoRefs: on success the chunks are on the stream and
\* the handler goes on to `next`; on failure it returns Internal
InfoRefsWrite(p, what, next) ==
    /\ IF streamCtx = "active"
       THEN /\ sent' = sent \o [i \in 1 .. Len(WriterWrite(p)) |->
                                   InfoRefsSend(WriterWrite(p)[i])]
            /\ pc' = next
            /\ ret' = IF next = "done" THEN Returned(NilErr) ELSE ret
       ELSE /\ sent' = sent
            /\ pc' = "done"
            /\ ret' = Returned(StatusErrorf("Internal",
                        <<"InfoRefsUploadPack: ", what,
                          ErrorString(SendCancelled)>>))
    /\ UNCHANGED <<call, req, environ, cmd, streamCtx, elapsed, proc, runErr,
                   procStderr, stderrBuf, cmdBuf, inbox, clientLog,
                   clientClosed, feeder, drainer, fed, procOut, outPipe, logs,
                   pwIn, pwOut>>

InfoRefsWritePktLineRaw ==
    /\ call = "InfoRefs"
    /\ pc = "pktLine"
    /\ InfoRefsWrite("# service=git-" \o req.Service \o "\n", "pktLine: ",
                     "flush")

InfoRefsWritePktLine ==
    /\ call = "InfoRefs"
    /\ pc = "pktLine"
    /\ InfoRefsWrite(
           Bytes(packetWrite(Lit("# service=git-" \o req.Service \o "\n"))),
           "pktLine: ", "flush")

InfoRefsWriteFlush ==
    /\ call = "InfoRefs"
    /\ pc = "flush"
    /\ InfoRefsWrite("0000", "flush: ", "copy")

\* io.Copy(w, cmd): the buffer writes all it holds in one Write, and
\* nothing when it is empty
InfoRefsCopy ==
    /\ call = "InfoRefs"
    /\ pc = "copy"
    /\ IF cmdBuf = ""
       THEN /\ pc' = "done"
            /\ ret' = Returned(NilErr)
            /\ UNCHANGED <<call, req, environ, cmd, streamCtx, elapsed, proc,
                           runErr, procStderr, stderrBuf, cmdBuf, inbox,
                           clientLog, clientClosed, feeder, drainer, fed,
                           procOut, outPipe, sent, logs, pwIn, pwOut>>
       ELSE InfoRefsWrite(cmdBuf, "", "done")

(***************************************************************************)
(* ServicePack and serviceRPC.                                             *)
(***************************************************************************)
\* getFullPathForRepo
getFullPathForRepo(uid) == "/repos/" \o uid \o ".git"

\* ctx := stream.Context(), handed to git.NewCommand
ServicePackContext == "stream"

\* the receiver callback: resp.GetData() of the message stream.Recv returned
ServicePackReceiveTwice(m) == GetData(m) \o GetData(m)

ServicePackReceive(m) == GetData(m)

\* the sender callback: stream.Send(&rpc.ServicePackResponse{Data: p})
ServicePackSend(p) == p

\* the number, on the stream, of the message at the head of inbox
HeadNumber == Len(clientLog) - Len(inbox) + 1

\* the caller puts one more message on the stream
ClientSend ==
    /\ call = "ServicePack"
    /\ ~ret.returned
    /\ ~clientClosed
    /\ streamCtx = "active"
    /\ Len(clientLog) - 1 < MaxClientMsgs
    /\ \E d \in Payloads(Len(clientLog) + 1) :
          /\ inbox' = Append(inbox, DataMessage(d))
          /\ clientLog' = Append(clientLog, DataMessage(d))
    /\ UNCHANGED <<call, pc, req, environ, cmd, streamCtx, elapsed, proc,
                   runErr, procStderr, stderrBuf, cmdBuf, clientClosed, feeder,
                   drainer, fed, procOut, outPipe, sent, logs, ret, pwIn,
                   pwOut>>

\* the caller half-closes the stream
ClientClose ==
    /\ call = "ServicePack"
    /\ ~ret.returned
    /\ ~clientClosed
    /\ streamCtx = "active"
    /\ clientClosed' = TRUE
    /\ UNCHANGED <<call, pc, req, environ, cmd, streamCtx, elapsed, proc,
                   runErr, procStderr, stderrBuf, cmdBuf, inbox, clientLog,
                   feeder, drainer, fed, procOut, outPipe, sent, logs, ret,
                   pwIn, pwOut>>

ServicePackRecvNoChecks ==
    /\ call = "ServicePack"
    /\ pc = "recv"
    /\ inbox # <<>>
    /\ req' = Head(inbox)
    /\ inbox' = Tail(inbox)
    /\ pc' = "serviceRPC"
    /\ UNCHANGED <<call, environ, cmd, streamCtx, elapsed, proc, runErr,
                   procStderr, stderrBuf, cmdBuf, clientLog, clientClosed,
                   feeder, drainer, fed, procOut, outPipe, sent, logs, ret,
                   pwIn, pwOut>>

\* the first stream.Recv() and the checks of the metadata message
ServicePackRecv ==
    /\ call = "ServicePack"
    /\ pc = "recv"
    /\ \/ /\ inbox # <<>>
          /\ req' = Head(inbox)
          /\ inbox' = Tail(inbox)
          /\ IF req'.Data.set
             THEN /\ ret' = Returned(StatusErrorf("InvalidArgument",
                              <<"PostUploadPack(): non-empty Data">>))
                  /\ pc' = "done"
             ELSE IF req'.RepoUid = ""
             THEN /\ ret' = Returned(StatusErrorf("InvalidArgument",
                              <<"PostUploadPack(): repository UID is missing">>))
                  /\ pc' = "done"
             ELSE /\ ret' = ret
                  /\ pc' = "serviceRPC"
       \/ /\ streamCtx = "cancelled"
          /\ ret' = Returned(RecvCancelled)
          /\ pc' = "done"
          /\ UNCHANGED <<req, inbox>>
    /\ UNCHANGED <<call, environ, cmd, streamCtx, elapsed, proc, runErr,
                   procStderr, stderrBuf, cmdBuf, clientLog, clientClosed,
                   feeder, drainer, fed, procOut, outPipe, sent, logs, pwIn,
                   pwOut>>

\* serviceRPC up to the start of the command by cmd.Run
serviceRPCStart ==
    /\ call = "ServicePack"
    /\ pc = "serviceRPC"
    /\ environ' = serviceRPCEnviron(req)
    /\ cmd' = [ctx |-> ServicePackContext, Env |-> HostEnviron \o environ',
               Stdout |-> "stream", Stdin |-> TRUE, Stderr |-> TRUE]
    /\ \/ /\ ~CtxDone(ServicePackContext)
          /\ proc' = "running"
          /\ runErr' = runErr
          /\ feeder' = "running"
          /\ drainer' = "running"
       \/ /\ proc' = "launchFailed"
          /\ runErr' \in IF CtxDone(ServicePackContext)
                         THEN {StartCancelled} ELSE LaunchErrors
          /\ UNCHANGED <<feeder, drainer>>
    /\ pc' = "run"
    /\ UNCHANGED <<call, req, streamCtx, elapsed, procStderr, stderrBuf,
                   cmdBuf, inbox, clientLog, clientClosed, fed, procOut,
                   outPipe, sent, logs, ret, pwIn, pwOut>>

\* one Read of the stdin reader by the task feeding the subprocess, and the
\* write of what it returned into the stdin pipe
FeedStdin ==
    /\ feeder = "running"
    /\ \/ /\ inbox # <<>>
          /\ inbox' = Tail(inbox)
          /\ LET data == ReaderRead(ServicePackReceive(Head(inbox)))
             IN  IF data = <<>>
                 THEN UNCHANGED <<fed, feeder>>
                 ELSE IF proc = "running"
                 THEN fed' = Append(fed, <<HeadNumber, data>>)
                      /\ feeder' = feeder
                 ELSE fed' = fed /\ feeder' = "done"
       \/ /\ streamCtx = "cancelled"
          /\ feeder' = "failed"
          /\ UNCHANGED <<inbox, fed>>
       \/ /\ inbox = <<>>
          /\ clientClosed
          /\ streamCtx = "active"
          /\ feeder' = "done"
          /\ UNCHANGED <<inbox, fed>>
    /\ UNCHANGED <<call, pc, req, environ, cmd, streamCtx, elapsed, proc,
                   runErr, procStderr, stderrBuf, cmdBuf, clientLog,
                   clientClosed, drainer, procOut, outPipe, sent, logs, ret,
                   pwIn, pwOut>>

\* one read of the stdout pipe by the draining task (all that is there),
\* written to the stdout writer; end of file once the subprocess is gone
DrainStdout ==
    /\ drainer = "running"
    /\ \/ /\ outPipe # <<>>
          /\ outPipe' = <<>>
          /\ IF streamCtx = "active"
             THEN /\ sent' = sent \o [i \in 1 .. Len(WriterWrite(outPipe)) |->
                                         ServicePackSend(WriterWrite(outPipe)[i])]
                  /\ drainer' = drainer
             ELSE /\ sent' = sent
                  /\ drainer' = "failed"
       \/ /\ outPipe = <<>>
          /\ Terminated
          /\ drainer' = "done"
          /\ UNCHANGED <<outPipe, sent>>
    /\ UNCHANGED <<call, pc, req, environ, cmd, streamCtx, elapsed, proc,
                   runErr, procStderr, stderrBuf, cmdBuf, inbox, clientLog,
                   clientClosed, feeder, fed, procOut, logs, ret, pwIn, pwOut>>

\* the errors the copying tasks ended with
CopyErrors ==
    (IF feeder = "failed" THEN {RecvCancelled} ELSE {})
        \cup (IF drainer = "failed" THEN {SendCancelled} ELSE {})

serviceRPCLogsAlways(err) == err # NilErr

\* if err != nil && err.Error() != "signal: killed"
serviceRPCLogs(err) == err # NilErr /\ ErrorString(err) # SignalKilled

\* return err
serviceRPCResult(err) == err

\* cmd.Run has returned: the log entry and the return of serviceRPC, which
\* ServicePack returns as it is
serviceRPCReturns ==
    /\ call = "ServicePack"
    /\ pc = "run"
    /\ \/ proc = "launchFailed"
       \/ Terminated /\ feeder # "running" /\ drainer # "running"
    /\ \E err \in RunResults(CopyErrors) :
          /\ runErr' = err
          /\ logs' = IF serviceRPCLogs(err)
                     THEN Append(logs,
                            [level |-> "error",
                             parts |-> <<"Fail to serve RPC(", req.Service,
                                         ") in ",
                                         getFullPathForRepo(req.RepoUid), ": ",
                                         ErrorString(err), " - ", stderrBuf>>])
                     ELSE logs
          /\ ret' = Returned(serviceRPCResult(err))
    /\ pc' = "done"
    /\ UNCHANGED <<call, req, environ, cmd, streamCtx, elapsed, proc,
                   procStderr, stderrBuf, cmdBuf, inbox, clientLog,
                   clientClosed, feeder, drainer, fed, procOut, outPipe, sent,
                   pwIn, pwOut>>

NextInfoRefs ==
    \/ InfoRefsStart
    \/ InfoRefsRunReturns
    \/ InfoRefsWritePktLine
    \/ InfoRefsWriteFlush
    \/ InfoRefsCopy

NextServicePack ==
    \/ ServicePackRecv
    \/ serviceRPCStart
    \/ FeedStdin
    \/ DrainStdout
    \/ serviceRPCReturns

NextSurroundings ==
    \/ CallerCancel
    \/ ClientSend
    \/ ClientClose
    \/ Tick
    \/ ProcWrite
    \/ ProcExit
    \/ Kill

Next == CallPacketWrite \/ NextInfoRefs \/ NextServicePack \/ NextSurroundings

Spec == Init /\ [][Next]_vars

(***************************************************************************)
(* Helpers of the properties.                                              *)
(***************************************************************************)
\* the entries of env carrying the name
Entries(env, name) == {i \in DOMAIN env : env[i].name = name}

\* n rendered in exactly w lowercase hexadecimal digits (n < 16^w)
HexWidth(n, w) ==
    Join([i \in 1 .. w |-> HexDigits[((n \div (16 ^ (w - i))) % 16) + 1]])

RECURSIVE NumHexDigits(_)
NumHexDigits(n) == IF n < 16 THEN 1 ELSE 1 + NumHexDigits(n \div 16)

\* the first message of a ServicePack call has been received
FirstReceived == call = "ServicePack" /\ Len(inbox) < Len(clientLog)

Preface == Bytes(packetWrite(Lit("# service=git-" \o req.Service \o "\n")))

(***************************************************************************)
(* C1: no git subprocess, whether started by InfoRefs or by serviceRPC,    *)
(* gets a GIT_PROTOCOL variable from the bridge unless the caller's        *)
(* protocol text is non-empty and matches safeGitProtocolHeader.           *)
(* InfoRefs appends every non-empty protocol text unchecked, so this is    *)
(* violated.                                                               *)
(***************************************************************************)
C1_ProtocolOnlyWhenSafe ==
    cmd # NoCmd =>
        \A i \in Entries(environ, "GIT_PROTOCOL") :
            /\ req.GitProtocol # <<>>
            /\ safeGitProtocolHeaderMatchString(req.GitProtocol)

(***************************************************************************)
(* C2: once the first message of a ServicePack call has been received with *)
(* Data set or with an empty repository UID, the call has returned         *)
(* InvalidArgument and no subprocess exists or was attempted; a subprocess *)
(* is attempted only after a first message without Data and with a UID.    *)
(***************************************************************************)
C2_InvalidMetadataRejected ==
    call = "ServicePack" =>
        /\ (FirstReceived /\ (clientLog[1].Data.set \/ clientLog[1].RepoUid = ""))
              => /\ ret.returned
                 /\ GrpcCode(ret.err) = "InvalidArgument"
                 /\ proc = "none"
                 /\ cmd = NoCmd
        /\ (proc # "none" \/ cmd # NoCmd)
              => /\ FirstReceived
                 /\ ~clientLog[1].Data.set
                 /\ clientLog[1].RepoUid # ""

C2_Witness ==
    /\ FirstReceived
    /\ clientLog[1].Data.set
    /\ clientLog[1].RepoUid # ""
    /\ ret.returned
    /\ GrpcCode(ret.err) = "InvalidArgument"

(***************************************************************************)
(* C3: in the environment serviceRPC builds, EnvRepoUID=<repository UID>   *)
(* and EnvPusherID=<principal> are both present, once each and with the    *)
(* values of the request, exactly when the service is receive-pack and the *)
(* principal is non-empty; otherwise neither name occurs.                  *)
(***************************************************************************)
C3_PushCorrelation ==
    (call = "ServicePack" /\ cmd # NoCmd) =>
        IF req.Service = receivePack /\ req.PrincipalId # ""
        THEN /\ Cardinality(Entries(environ, EnvRepoUID)) = 1
             /\ Cardinality(Entries(environ, EnvPusherID)) = 1
             /\ \A i \in Entries(environ, EnvRepoUID) :
                    environ[i].value = Text(req.RepoUid)
             /\ \A i \in Entries(environ, EnvPusherID) :
                    environ[i].value = Text(req.PrincipalId)
             /\ cmd.Env = HostEnviron \o environ
        ELSE /\ Entries(cmd.Env, EnvRepoUID) = {}
             /\ Entries(cmd.Env, EnvPusherID) = {}

C3_Witness ==
    /\ call = "ServicePack"
    /\ proc = "running"
    /\ req.Service = receivePack
    /\ req.PrincipalId = "p1"
    /\ Entries(cmd.Env, EnvPusherID) # {}

(***************************************************************************)
(* C4 as claimed: packetWrite(s) is 4 header characters, len(s)+4 in       *)
(* lowercase hexadecimal zero-padded to width 4, followed by s, for every  *)
(* input.  Violated from len(s) = 65532 on, where the header has 8         *)
(* characters.                                                             *)
(***************************************************************************)
C4_HeaderAlwaysFour ==
    (call = "packetWrite" /\ pc = "done") =>
        LET n == StrLen(pwIn) + 4
        IN  /\ StrLen(pwOut) = StrLen(pwIn) + 4
            /\ n < 16 ^ 4 => pwOut = StrConcat(HexWidth(n, 4), pwIn)

(***************************************************************************)
(* C4 amended: packetWrite(s) is a header followed by s verbatim; the      *)
(* header is len(s)+4 in lowercase hexadecimal, zero-padded on the left to *)
(* the next multiple of 4 characters: exactly 4 characters while           *)
(* len(s)+4 <= 65535, and 8 from there on.                                 *)
(***************************************************************************)
C4_HeaderMultipleOfFour ==
    (call = "packetWrite" /\ pc = "done") =>
        LET n == StrLen(pwIn) + 4
            w == 4 * ((NumHexDigits(n) + 3) \div 4)
        IN  /\ pwOut = StrConcat(HexWidth(n, w), pwIn)
            /\ StrLen(pwOut) = StrLen(pwIn) + w
            /\ (n <= 65535 <=> w = 4)

C4_Witness ==
    /\ call = "packetWrite"
    /\ pc = "done"
    /\ StrLen(pwIn) = 65532
    /\ StrLen(pwOut) = 65540

(***************************************************************************)
(* C5: what InfoRefs has sent is at every moment a leading part of the     *)
(* preface packetWrite("# service=git-<service>\n"), the flush marker      *)
(* "0000" and the subprocess output, in this order; a call that returns    *)
(* nil has sent exactly their concatenation, the output being every byte   *)
(* the subprocess wrote on standard output.                                *)
(***************************************************************************)
C5_AdvertisementOrder ==
    call = "InfoRefs" =>
        /\ IsPrefix(sent, <<Preface, "0000", cmdBuf>>)
        /\ (ret.returned /\ ret.err = NilErr)
              => Join(sent) = Preface \o "0000" \o Join(procOut)

C5_Witness ==
    /\ call = "InfoRefs"
    /\ ret.returned
    /\ ret.err = NilErr
    /\ Len(procOut) = 2
    /\ req.Service = uploadPack
    /\ sent = <<"001e# service=git-upload-pack\n", "0000",
                procOut[1] \o procOut[2]>>

(***************************************************************************)
(* C6: a call whose subprocess failed to launch or exited non-zero, not    *)
(* through cancellation, returns gRPC code Internal, in InfoRefs and in    *)
(* ServicePack, and the standard-error text is in no message returned.     *)
(* serviceRPC returns the error of cmd.Run as it is, which the caller sees *)
(* as code Unknown, so this is violated.                                   *)
(***************************************************************************)
SubprocessFailed ==
    \/ proc = "exitedN"
    \/ proc = "launchFailed" /\ runErr \in LaunchErrors

C6_FailureIsInternal ==
    (ret.returned /\ SubprocessFailed) =>
        /\ GrpcCode(ret.err) = "Internal"
        /\ \A i \in DOMAIN ret.err.parts : ret.err.parts[i] # StderrText

(***************************************************************************)
(* Scheduling: exec's watcher of the command context, the two copying      *)
(* tasks and the handlers themselves keep running while they have a step   *)
(* to take.  The caller, the clock and the subprocess promise nothing.     *)
(* The protocol text of a ServicePack request plays no part in scheduling  *)
(* and is fixed here.                                                      *)
(***************************************************************************)
FairInit ==
    \/ InitPacketWrite
    \/ InitInfoRefs
    \/ InitServicePack /\ inbox[1].GitProtocol = <<"v", "=", "2">>

FairSpec ==
    /\ FairInit
    /\ [][Next]_vars
    /\ WF_vars(Kill)
    /\ WF_vars(FeedStdin)
    /\ WF_vars(DrainStdout)
    /\ WF_vars(serviceRPCReturns)
    /\ WF_vars(InfoRefsRunReturns)

(***************************************************************************)
(* C7: in ServicePack, a subprocess still running when the stream context  *)
(* is cancelled is eventually terminated; when it was killed for that, the *)
(* call eventually returns, with the non-nil error "signal: killed" and    *)
(* without any log entry; every other non-nil error of cmd.Run is recorded *)
(* in the log at error level, once.                                        *)
(***************************************************************************)
C7_ReturnAndLog ==
    (call = "ServicePack" /\ ret.returned) =>
        /\ proc = "killed"
              => /\ ret.err = KilledErr
                 /\ ret.err # NilErr
                 /\ logs = <<>>
        /\ (runErr # NilErr /\ proc # "killed")
              => /\ Len(logs) = 1
                 /\ logs[1].level = "error"
                 /\ ret.err = runErr
        /\ runErr = NilErr => logs = <<>>

\* C7: the return and log rule above holds always, cancellation of a running
\* ServicePack subprocess leads to its termination, and a killed subprocess
\* leads to the return of "signal: killed" with an empty log.
C7_CancelTerminates ==
    /\ []C7_ReturnAndLog
    /\ (call = "ServicePack" /\ proc = "running" /\ streamCtx = "cancelled")
          ~> Terminated
    /\ (call = "ServicePack" /\ proc = "killed")
          ~> (ret.returned /\ ret.err = KilledErr /\ logs = <<>>)

C7_Witness ==
    /\ call = "ServicePack"
    /\ ret.returned
    /\ proc = "killed"
    /\ streamCtx = "cancelled"
    /\ ret.err = KilledErr
    /\ procOut # <<>>
    /\ logs = <<>>

(***************************************************************************)
(* C8 as claimed: in a call that returns nil the chunks sent to the caller  *)
(* are exactly the writes the subprocess made on standard output, none     *)
(* reordered, dropped or duplicated.  Violated: two writes of the          *)
(* subprocess read from the pipe together are sent as one chunk.           *)
(***************************************************************************)
\* the stdin writes that messages 2 .. k lead to: their non-empty payloads
RECURSIVE PayloadWrites(_, _)
PayloadWrites(log, k) ==
    IF k < 2 THEN <<>>
    ELSE IF GetData(log[k]) = <<>> THEN PayloadWrites(log, k - 1)
    ELSE Append(PayloadWrites(log, k - 1), <<k, GetData(log[k])>>)

C8_ChunksAreWrites ==
    (call = "ServicePack" /\ ret.returned /\ ret.err = NilErr) =>
        sent = procOut

(***************************************************************************)
(* C8 amended: in each direction the bytes pass in order, none duplicated  *)
(* and none out of place; chunk boundaries are not kept.  What reached     *)
(* standard input is, in order, the non-empty payloads of the caller       *)
(* messages 2 .. k for some k, never the metadata message; the bytes sent  *)
(* to the caller are at every moment a leading part of the bytes the       *)
(* subprocess wrote on standard output, and all of them once the call has  *)
(* returned nil.                                                           *)
(***************************************************************************)
C8_BytesInOrder ==
    call = "ServicePack" =>
        /\ \E k \in 0 .. (Len(clientLog) - Len(inbox)) :
              fed = PayloadWrites(clientLog, k)
        /\ \A i \in DOMAIN fed : fed[i][1] # 1
        /\ IsPrefix(Flatten(sent), Flatten(procOut))
        /\ (drainer # "failed"
              => Flatten(sent) \o outPipe = Flatten(procOut))
        /\ (ret.returned /\ ret.err = NilErr)
              => Flatten(sent) = Flatten(procOut)

C8_Witness ==
    /\ call = "ServicePack"
    /\ ret.returned
    /\ ret.err = NilErr
    /\ Len(fed) = 2
    /\ Len(procOut) = 2
    /\ Len(sent) = 1
    /\ Flatten(sent) = Flatten(procOut)

(***************************************************************************)
(* C9: InfoRefs sends nothing before its subprocess has exited with status *)
(* 0; when the subprocess failed to launch or ended with an error, the     *)
(* call returns Internal with the message of that error, and nothing, not  *)
(* even the preface, has been sent, whatever the subprocess had written.   *)
(***************************************************************************)
C9_NothingSentOnFailure ==
    call = "InfoRefs" =>
        /\ sent # <<>> => (proc = "exited0" /\ runErr = NilErr)
        /\ (ret.returned /\ proc \in {"launchFailed", "exitedN", "killed"})
              => /\ runErr # NilErr
                 /\ ret.err = StatusErrorf("Internal",
                        <<"InfoRefsUploadPack: cmd: ", ErrorString(runErr)>>)
                 /\ GrpcCode(ret.err) = "Internal"
                 /\ sent = <<>>
        /\ (pc \in {"pktLine", "flush", "copy"}) => proc = "exited0"

C9_Witness ==
    /\ call = "InfoRefs"
    /\ ret.returned
    /\ proc = "exitedN"
    /\ cmdBuf # ""
    /\ sent = <<>>
    /\ GrpcCode(ret.err) = "Internal"

(***************************************************************************)
(* C10: the command of InfoRefs runs under the 60-second timeout context,  *)
(* never under the stream context: it is killed only once 60 seconds have  *)
(* passed, whether or not the caller has cancelled; a subprocess still     *)
(* running at that time is eventually terminated, and a call whose         *)
(* subprocess was killed eventually returns Internal.                      *)
(***************************************************************************)
C10_OwnTimeout ==
    (call = "InfoRefs" /\ cmd # NoCmd) =>
        /\ cmd.ctx = "timeout"
        /\ proc = "killed" => elapsed >= InfoRefsTimeout
        /\ (ret.returned /\ proc = "killed")
              => GrpcCode(ret.err) = "Internal"

\* C10: the rule above holds always, the InfoRefs subprocess is killed only
\* in a step taken with the 60 seconds passed, a subprocess running past the
\* timeout is eventually terminated, and a killed one leads to Internal.
C10_TimeoutAborts ==
    /\ []C10_OwnTimeout
    /\ [][(call = "InfoRefs" /\ proc = "running" /\ proc' = "killed")
             => elapsed >= InfoRefsTimeout]_vars
    /\ (call = "InfoRefs" /\ proc = "running" /\ elapsed >= InfoRefsTimeout)
          ~> Terminated
    /\ (call = "InfoRefs" /\ proc = "killed")
          ~> (ret.returned /\ GrpcCode(ret.err) = "Internal")

C10_Witness ==
    /\ call = "InfoRefs"
    /\ ret.returned
    /\ proc = "killed"
    /\ streamCtx = "active"
    /\ elapsed >= InfoRefsTimeout
    /\ GrpcCode(ret.err) = "Internal"

(***************************************************************************)
(* C11 as claimed: the environment of every git command the bridge starts, *)
(* in InfoRefs as in serviceRPC, holds SSH_ORIGINAL_COMMAND with the       *)
(* service name as its value, and is os.Environ() followed by the          *)
(* variables the bridge adds.  Violated by InfoRefs, which adds no         *)
(* SSH_ORIGINAL_COMMAND.                                                   *)
(***************************************************************************)
ServiceMarkers(env) == Entries(env, "SSH_ORIGINAL_COMMAND")

HostEnvironKept ==
    /\ IsPrefix(HostEnviron, cmd.Env)
    /\ cmd.Env = HostEnviron \o environ

C11_MarkerInEveryCommand ==
    cmd # NoCmd =>
        /\ ServiceMarkers(cmd.Env) # {}
        /\ \A i \in ServiceMarkers(cmd.Env) :
               cmd.Env[i].value = Text(req.Service)
        /\ HostEnvironKept

(***************************************************************************)
(* C11, amended: a command started by serviceRPC holds exactly one         *)
(* SSH_ORIGINAL_COMMAND entry, its value the service name, after           *)
(* os.Environ(), whatever the principal and the protocol text are; a       *)
(* command started by InfoRefs holds none; in both, the environment is     *)
(* os.Environ() unchanged followed by the variables the bridge adds.       *)
(***************************************************************************)
C11_MarkerInServiceRPC ==
    cmd # NoCmd =>
        /\ HostEnvironKept
        /\ call = "ServicePack" =>
               /\ Cardinality(ServiceMarkers(cmd.Env)) = 1
               /\ \A i \in ServiceMarkers(cmd.Env) :
                      /\ i > Len(HostEnviron)
                      /\ cmd.Env[i].value = Text(req.Service)
        /\ call = "InfoRefs" => ServiceMarkers(cmd.Env) = {}

C11_Witness ==
    /\ call = "ServicePack"
    /\ proc = "running"
    /\ req.Service = uploadPack
    /\ req.PrincipalId = ""
    /\ req.GitProtocol # <<>>
    /\ ~safeGitProtocolHeaderMatchString(req.GitProtocol)
    /\ cmd.Env = HostEnviron
                     \o <<EnvVar("SSH_ORIGINAL_COMMAND", Text(uploadPack))>>

====
